---------------------------- MODULE Spec2Model ----------------------------
(***************************************************************************)
(* Model of the traffic-accident investigation assistant (src/app1.py and  *)
(* its older variant src/app.py): a Streamlit page that collects a case    *)
(* record, sends it to a text-completion backend and decodes and renders   *)
(* the JSON reply.                                                         *)
(*                                                                         *)
(* Two specifications are given.                                           *)
(*   DecodeSpec : the response decoding of analyze_situation, applied to   *)
(*                every reply text over a small token alphabet.            *)
(*   Spec       : one browser session; every step is one user interaction  *)
(*                followed by the complete rerun of the script that        *)
(*                Streamlit performs for it.                               *)
(*                                                                         *)
(* A reply text is a sequence of tokens.  Whitespace between tokens is not *)
(* represented: json.loads ignores it and the pattern [\s\S] matches it.   *)
(* String literals and prose words are tokens that contain no brace.       *)
(***************************************************************************)
EXTENDS Naturals, Sequences, FiniteSets, TLC

\* Longest reply text enumerated by DecodeSpec.
MaxLen == 5

----------------------------------------------------------------------------
(* Python values as they come out of json.loads.                           *)

PyNone == [t |-> "none", s |-> "", keys |-> <<>>, kids |-> <<>>]

PyStr(str) == [t |-> "str", s |-> str, keys |-> <<>>, kids |-> <<>>]

PyBool(b) == [t |-> "bool", s |-> IF b THEN "true" ELSE "false",
              keys |-> <<>>, kids |-> <<>>]

PyList(items) == [t |-> "list", s |-> "", keys |-> <<>>, kids |-> items]

\* A dict in insertion order: keys[i] maps to kids[i]; keys are distinct.
PyDict(ks, vs) == [t |-> "dict", s |-> "", keys |-> ks, kids |-> vs]

\* Python truthiness: None, "", [] and {} are false.
Truthy(v) ==
    CASE v.t = "none" -> FALSE
      [] v.t = "str"  -> v.s # ""
      [] v.t = "bool" -> v.s = "true"
      [] OTHER        -> Len(v.kids) > 0

IndexOfKey(ks, k) ==
    IF \E i \in 1..Len(ks) : ks[i] = k
    THEN CHOOSE i \in 1..Len(ks) : ks[i] = k
    ELSE 0

\* d[k] = v on a dict: a repeated key keeps its place and takes the new value.
DictSet(d, k, v) ==
    LET i == IndexOfKey(d.keys, k)
    IN  IF i = 0
        THEN PyDict(Append(d.keys, k), Append(d.kids, v))
        ELSE PyDict(d.keys, [d.kids EXCEPT ![i] = v])

HasKey(d, k) == d.t = "dict" /\ IndexOfKey(d.keys, k) # 0

\* d.get(k, default)
DictGet(d, k, default) ==
    IF IndexOfKey(d.keys, k) = 0 THEN default ELSE d.kids[IndexOfKey(d.keys, k)]

----------------------------------------------------------------------------
(* json.loads over token sequences.                                        *)

\* Field names and values that occur as string literals in replies.
StringTokens ==
    {"s", "situation_type", "primary_actions", "required_examinations",
     "interrogation_plan", "special_recommendations",
     "witness_questions", "driver_questions", "victim_questions",
     "general", "specific", "technical", "pre_incident", "incident",
     "post_incident", "health", "A", "a1", "e1", "r1", "q1", "q2",
     "date_time", "location", "incident_type", "participants", "conditions",
     "vehicle", "victim", "driver", "present", "details", "condition",
     "type", "damage", "weather", "road", "lighting",
     "", "2024-01-01", "pedestrian_hit", "sedan", "injured", "normal",
     "clear", "dry", "daylight"}

ParseFail == [ok |-> FALSE, v |-> PyNone, next |-> 0]

ParseOk(v, next) == [ok |-> TRUE, v |-> v, next |-> next]

RECURSIVE ParseValue(_, _)
RECURSIVE ParseElements(_, _, _)
RECURSIVE ParseMembers(_, _, _)

\* A JSON value starting at token i.
ParseValue(toks, i) ==
    IF i > Len(toks) THEN ParseFail
    ELSE IF toks[i] \in StringTokens THEN ParseOk(PyStr(toks[i]), i + 1)
    ELSE IF toks[i] = "null" THEN ParseOk(PyNone, i + 1)
    ELSE IF toks[i] \in {"true", "false"}
         THEN ParseOk(PyBool(toks[i] = "true"), i + 1)
    ELSE IF toks[i] = "["
         THEN IF i + 1 <= Len(toks) /\ toks[i + 1] = "]"
              THEN ParseOk(PyList(<<>>), i + 2)
              ELSE ParseElements(toks, i + 1, <<>>)
    ELSE IF toks[i] = "{"
         THEN IF i + 1 <= Len(toks) /\ toks[i + 1] = "}"
              THEN ParseOk(PyDict(<<>>, <<>>), i + 2)
              ELSE ParseMembers(toks, i + 1, PyDict(<<>>, <<>>))
    ELSE ParseFail

\* The elements of an array from token i on, up to its closing bracket.
ParseElements(toks, i, acc) ==
    LET r == ParseValue(toks, i)
    IN  IF ~r.ok \/ r.next > Len(toks) THEN ParseFail
        ELSE IF toks[r.next] = ","
             THEN ParseElements(toks, r.next + 1, Append(acc, r.v))
        ELSE IF toks[r.next] = "]"
             THEN ParseOk(PyList(Append(acc, r.v)), r.next + 1)
        ELSE ParseFail

\* The members of an object from token i on, up to its closing brace.
ParseMembers(toks, i, acc) ==
    IF i + 1 > Len(toks) \/ toks[i] \notin StringTokens \/ toks[i + 1] # ":"
    THEN ParseFail
    ELSE LET r == ParseValue(toks, i + 2)
         IN  IF ~r.ok \/ r.next > Len(toks) THEN ParseFail
             ELSE IF toks[r.next] = ","
                  THEN ParseMembers(toks, r.next + 1, DictSet(acc, toks[i], r.v))
             ELSE IF toks[r.next] = "}"
                  THEN ParseOk(DictSet(acc, toks[i], r.v), r.next + 1)
             ELSE ParseFail

\* json.loads(text): the value when the whole text is one JSON document,
\* JSONDecodeError otherwise (also on trailing data).
json_loads(toks) ==
    LET r == ParseValue(toks, 1)
    IN  IF r.ok /\ r.next = Len(toks) + 1
        THEN [ok |-> TRUE, v |-> r.v]
        ELSE [ok |-> FALSE, v |-> PyNone]

----------------------------------------------------------------------------
(* re.search(r'({[\s\S]*})', text)                                         *)

BracePositions(toks, brace) == {i \in 1..Len(toks) : toks[i] = brace}

Min(S) == CHOOSE m \in S : \A n \in S : m <= n

Max(S) == CHOOSE m \in S : \A n \in S : m >= n

\* re.match in place of re.search: the match is tried at the start only.
re_match(toks) ==
    LET closes == BracePositions(toks, "}")
    IN  IF Len(toks) > 0 /\ toks[1] = "{" /\ closes # {} /\ 1 < Max(closes)
        THEN [matched |-> TRUE, group |-> SubSeq(toks, 1, Max(closes))]
        ELSE [matched |-> FALSE, group |-> <<>>]

\* The leftmost match is greedy: from the first "{" to the last "}".
re_search(toks) ==
    LET opens  == BracePositions(toks, "{")
        closes == BracePositions(toks, "}")
    IN  IF opens # {} /\ closes # {} /\ Min(opens) < Max(closes)
        THEN [matched |-> TRUE, group |-> SubSeq(toks, Min(opens), Max(closes))]
        ELSE [matched |-> FALSE, group |-> <<>>]

----------------------------------------------------------------------------
(* The outcome of a call: a returned value or a raised exception.          *)

Return(v) == [kind |-> "return", v |-> v, exc |-> ""]

Raise(exc) == [kind |-> "raise", v |-> PyNone, exc |-> exc]

NotRun == [kind |-> "none", v |-> PyNone, exc |-> ""]

\* The extraction tried before the whole text.
ParseReply_extract_first(response_text) ==
    LET whole == json_loads(response_text)
        json_match == re_search(response_text)
    IN  IF json_match.matched /\ json_loads(json_match.group).ok
        THEN Return(json_loads(json_match.group).v)
        ELSE IF whole.ok THEN Return(whole.v)
        ELSE IF json_match.matched THEN Raise("JSONDecodeError")
        ELSE Raise("ValueError")

\* json_match.group(1) without the test of json_match: None has no group.
ParseReply_unchecked_match(response_text) ==
    LET whole == json_loads(response_text)
        json_match == re_search(response_text)
    IN  IF whole.ok THEN Return(whole.v)
        ELSE IF ~json_match.matched THEN Raise("AttributeError")
        ELSE IF json_loads(json_match.group).ok
             THEN Return(json_loads(json_match.group).v)
        ELSE Raise("JSONDecodeError")

\* app1.py lines 137-147: whole text first, then the brace extraction.
ParseReply(response_text) ==
    LET whole == json_loads(response_text)
        json_match == re_search(response_text)
    IN  IF whole.ok THEN Return(whole.v)
        ELSE IF json_match.matched
             THEN IF json_loads(json_match.group).ok
                  THEN Return(json_loads(json_match.group).v)
                  ELSE Raise("JSONDecodeError")
             ELSE Raise("ValueError")

\* app1.py lines 149-160: the handlers of the inner try.  JSONDecodeError
\* becomes ValueError; anything else is reported and raised again.
InnerHandlers(outcome) ==
    IF outcome.kind = "raise" /\ outcome.exc = "JSONDecodeError"
    THEN Raise("ValueError")
    ELSE outcome

\* app1.py lines 162-166: the handler of the outer try raises again.
OuterHandler(outcome) == outcome

\* app1.py lines 133-166: the decoding of a reply text.
decode_app1(response_text) ==
    OuterHandler(InnerHandlers(ParseReply(response_text)))

\* app.py line 44: the reply is parsed as it is.
decode_app(response_text) ==
    IF json_loads(response_text).ok
    THEN Return(json_loads(response_text).v)
    ELSE Raise("JSONDecodeError")

----------------------------------------------------------------------------
(* json.dumps: the serialization of the case record placed in the prompt.  *)

RECURSIVE JoinTokens(_, _)
JoinTokens(parts, sep) ==
    IF parts = <<>> THEN <<>>
    ELSE IF Len(parts) = 1 THEN parts[1]
    ELSE parts[1] \o <<sep>> \o JoinTokens(Tail(parts), sep)

RECURSIVE json_dumps(_)
json_dumps(v) ==
    CASE v.t = "none" -> <<"null">>
      [] v.t = "bool" -> <<v.s>>
      [] v.t = "str"  -> <<v.s>>
      [] v.t = "list" ->
            <<"[">> \o JoinTokens([i \in 1..Len(v.kids) |-> json_dumps(v.kids[i])], ",")
                    \o <<"]">>
      [] v.t = "dict" ->
            <<"{">> \o JoinTokens([i \in 1..Len(v.kids) |->
                                      <<v.keys[i], ":">> \o json_dumps(v.kids[i])], ",")
                    \o <<"}">>

----------------------------------------------------------------------------
(* Credentials.  A source holds None (NONE), the empty string or a key.    *)

NONE == "<None>"

\* Python truthiness of an optional string.
KeyTruthy(k) == k # NONE /\ k # ""

\* "if api_key is None" in place of "if not api_key".
api_key_is_none(api_key) == api_key = NONE

\* "if not api_key" (app1.py lines 26, 43 and 309).
not_api_key(api_key) == ~KeyTruthy(api_key)

\* st.session_state.get('ANTHROPIC_API_KEY', None)
session_get(ss) == IF ss.has_key THEN ss.ANTHROPIC_API_KEY ELSE NONE

\* The secret store asked before the environment.
first_key_secret_first(environ, secret, cached) ==
    IF KeyTruthy(secret) THEN secret
    ELSE IF KeyTruthy(environ) THEN environ
    ELSE cached

\* app1.py lines 20-24: the chain of "or"; the last operand is the value
\* when every operand is false.
first_key(environ, secret, cached) ==
    IF KeyTruthy(environ) THEN environ
    ELSE IF KeyTruthy(secret) THEN secret
    ELSE cached

\* app1.py lines 15-35.  text_value is what st.text_input returns in this
\* run.  The result carries the new session state and whether the prompt
\* was put on the page.
get_api_key(ss, environ, secret, text_value) ==
    LET found == first_key(environ, secret, session_get(ss))
    IN  IF ~not_api_key(found)
        THEN [api_key |-> found, session_state |-> ss, prompted |-> FALSE]
        ELSE IF ~ss.has_key
             THEN [api_key |-> text_value,
                   session_state |-> [ss EXCEPT !.has_key = TRUE,
                                                !.ANTHROPIC_API_KEY = text_value],
                   prompted |-> TRUE]
             ELSE [api_key |-> ss.ANTHROPIC_API_KEY, session_state |-> ss,
                   prompted |-> FALSE]

----------------------------------------------------------------------------
(* The case record (app1.py lines 340-409, app.py lines 121-147).          *)

\* The values the form widgets hold when the button is pressed: the text
\* fields and select boxes are left as the operator set them once.
FormValues ==
    [date_time |-> "2024-01-01", location |-> "", incident_type |-> "pedestrian_hit",
     vehicle_type |-> "sedan", vehicle_damage |-> "",
     victim_condition |-> "injured", driver_condition |-> "normal",
     weather |-> "clear", road_condition |-> "dry", lighting |-> "daylight"]

\* app1.py lines 340-366: each details dict starts empty and is filled
\* only under its checkbox.
vehicle_details(present, f) ==
    IF present
    THEN PyDict(<<"type", "damage">>, <<PyStr(f.vehicle_type), PyStr(f.vehicle_damage)>>)
    ELSE PyDict(<<>>, <<>>)

condition_details(present, condition) ==
    IF present THEN PyDict(<<"condition">>, <<PyStr(condition)>>) ELSE PyDict(<<>>, <<>>)

\* {"present": p, "details": d} without the test of p.
participant_unconditional(present, details) ==
    PyDict(<<"present", "details">>, <<PyBool(present), details>>)

\* app1.py lines 391-402: {"present": p, "details": d if p else None}
participant_app1(present, details) ==
    PyDict(<<"present", "details">>,
           <<PyBool(present), IF present THEN details ELSE PyNone>>)

\* app.py lines 133-140: {"present": p, "condition": c if p else None}
participant_app(present, condition) ==
    PyDict(<<"present", "condition">>,
           <<PyBool(present), IF present THEN PyStr(condition) ELSE PyNone>>)

conditions_record(f) ==
    PyDict(<<"weather", "road", "lighting">>,
           <<PyStr(f.weather), PyStr(f.road_condition), PyStr(f.lighting)>>)

\* app1.py lines 386-409
case_details_app1(boxes, f) ==
    PyDict(<<"date_time", "location", "incident_type", "participants", "conditions">>,
           <<PyStr(f.date_time), PyStr(f.location), PyStr(f.incident_type),
             PyDict(<<"vehicle", "victim", "driver">>,
                    <<participant_app1(boxes.vehicle, vehicle_details(boxes.vehicle, f)),
                      participant_app1(boxes.victim,
                                       condition_details(boxes.victim, f.victim_condition)),
                      participant_app1(boxes.driver,
                                       condition_details(boxes.driver, f.driver_condition))>>),
             conditions_record(f)>>)

\* app.py lines 121-147
case_details_app(boxes, f) ==
    PyDict(<<"date_time", "location", "incident_type", "participants", "conditions">>,
           <<PyStr(f.date_time), PyStr(f.location), PyStr(f.incident_type),
             PyDict(<<"vehicle", "victim", "driver">>,
                    <<participant_app1(boxes.vehicle, vehicle_details(boxes.vehicle, f)),
                      participant_app(boxes.victim, f.victim_condition),
                      participant_app(boxes.driver, f.driver_condition)>>),
             conditions_record(f)>>)

----------------------------------------------------------------------------
(* Rendering.  A page fragment is built element by element; an exception   *)
(* stops the rendering and keeps what was already put on the page.         *)

El(widget, body) == [widget |-> widget, body |-> body]

NoDownload == <<>>

RenderStart == [exc |-> "", out |-> <<>>, page |-> {}, download |-> NoDownload]

Emit(r, els) == IF r.exc # "" THEN r ELSE [r EXCEPT !.out = @ \o els]

Fail(r, exc) == IF r.exc # "" THEN r ELSE [r EXCEPT !.exc = exc]

\* d[k]: KeyError on a dict without the key, TypeError on a list, a string,
\* a boolean or None indexed by a string.
Subscript(d, k) ==
    IF d.t # "dict" THEN Raise("TypeError")
    ELSE IF HasKey(d, k) THEN Return(DictGet(d, k, PyNone))
    ELSE Raise("KeyError")

\* d.get(k, default): AttributeError on anything but a dict.
Get(d, k, default) ==
    IF d.t # "dict" THEN Raise("AttributeError") ELSE Return(DictGet(d, k, default))

\* What "for x in v" goes through.  A string is gone through as one item
\* (its characters are not told apart); None and booleans are not iterable.
Items(v) ==
    CASE v.t = "list" -> v.kids
      [] v.t = "dict" -> [i \in 1..Len(v.keys) |-> PyStr(v.keys[i])]
      [] v.t = "str"  -> IF v.s = "" THEN <<>> ELSE <<v>>
      [] OTHER        -> <<>>

Iterable(v) == v.t \in {"list", "dict", "str"}

HasDuplicates(items) ==
    \E i, j \in 1..Len(items) : i # j /\ items[i] = items[j]

\* for x in coll: st.<widget>(x)
ForEach(r, coll, widget) ==
    IF r.exc # "" THEN r
    ELSE IF ~Iterable(coll) THEN Fail(r, "TypeError")
    ELSE Emit(r, [i \in 1..Len(Items(coll)) |-> El(widget, Items(coll)[i])])

\* for x in analysis[key]: st.<widget>(x).  The checkboxes of the primary
\* actions carry the key "action_<text>": two equal texts collide.
ForEachOf(r, analysis, key, widget) ==
    LET sub == Subscript(analysis, key)
    IN  IF r.exc # "" THEN r
        ELSE IF sub.kind = "raise" THEN Fail(r, sub.exc)
        ELSE IF widget = "checkbox" /\ Iterable(sub.v) /\ HasDuplicates(Items(sub.v))
             THEN Fail(ForEach(r, sub.v, widget), "DuplicateWidgetID")
        ELSE ForEach(r, sub.v, widget)

\* if questions.get(category): st.subheader(title); for q in questions[category]: ...
Category(r, questions, category, title) ==
    LET got == Get(questions, category, PyNone)
    IN  IF r.exc # "" THEN r
        ELSE IF got.kind = "raise" THEN Fail(r, got.exc)
        ELSE IF Truthy(got.v)
             THEN ForEach(Emit(r, <<El("subheader", PyStr(title))>>), got.v, "markdown")
        ELSE r

WitnessCategories == <<"general", "specific", "technical">>

DriverCategories == <<"pre_incident", "incident", "post_incident", "technical">>

VictimCategories == <<"pre_incident", "incident", "health">>

RECURSIVE Categories(_, _, _)
Categories(r, questions, categories) ==
    IF categories = <<>> THEN r
    ELSE Categories(Category(r, questions, categories[1], categories[1]),
                    questions, Tail(categories))

\* app1.py lines 243-284: the lines of the exported document.
Line(kind, text) == [kind |-> kind, text |-> text]

RECURSIVE ExportCategories(_, _)
ExportCategories(questions, categories) ==
    IF categories = <<>> THEN <<>>
    ELSE (IF Truthy(DictGet(questions, categories[1], PyNone))
          THEN <<Line("category", PyStr(categories[1]))>>
               \o [i \in 1..Len(Items(DictGet(questions, categories[1], PyNone))) |->
                      Line("question", Items(DictGet(questions, categories[1], PyNone))[i])]
          ELSE <<>>)
         \o ExportCategories(questions, Tail(categories))

ExportRole(questions, role, categories) ==
    IF Truthy(questions)
    THEN <<Line("section", PyStr(role))>> \o ExportCategories(questions, categories)
    ELSE <<>>

all_questions(witness_questions, driver_questions, victim_questions) ==
    ExportRole(witness_questions, "witness_questions", WitnessCategories)
    \o ExportRole(driver_questions, "driver_questions", DriverCategories)
    \o ExportRole(victim_questions, "victim_questions", VictimCategories)

\* A role's block: the witnesses' expander is always opened (lines 181-196),
\* the driver's and the victim's only for a true value (lines 199-239).
RoleBlock(r, plan, role, categories, always) ==
    LET got == Get(plan, role, PyDict(<<>>, <<>>))
    IN  IF r.exc # "" THEN r
        ELSE IF got.kind = "raise" THEN Fail(r, got.exc)
        ELSE IF always \/ Truthy(got.v)
             THEN Categories(Emit(r, <<El("expander", PyStr(role))>>), got.v, categories)
        ELSE r

\* app1.py lines 241-290: the export button and, in a run in which it
\* returns True, the document and the download button.
ExportBlock(r, plan, export_clicked) ==
    IF r.exc # "" THEN r
    ELSE IF export_clicked
         THEN [r EXCEPT !.page = @ \cup {"export_button", "download_button"},
                        !.download =
                            all_questions(DictGet(plan, "witness_questions", PyDict(<<>>, <<>>)),
                                          DictGet(plan, "driver_questions", PyDict(<<>>, <<>>)),
                                          DictGet(plan, "victim_questions", PyDict(<<>>, <<>>)))]
    ELSE [r EXCEPT !.page = @ \cup {"export_button"}]

\* app1.py lines 172-290
display_interrogation_plan(r, analysis, export_clicked) ==
    LET plan == DictGet(analysis, "interrogation_plan", PyDict(<<>>, <<>>))
        r0 == Emit(r, <<El("header", PyStr("4"))>>)
        r1 == RoleBlock(r0, plan, "witness_questions", WitnessCategories, TRUE)
        r2 == RoleBlock(r1, plan, "driver_questions", DriverCategories, FALSE)
        r3 == RoleBlock(r2, plan, "victim_questions", VictimCategories, FALSE)
    IN  ExportBlock(r3, plan, export_clicked)

\* analysis["situation_type"] handed to st.info
SituationType(r, analysis) ==
    LET sub == Subscript(analysis, "situation_type")
        r0 == Emit(r, <<El("header", PyStr("3")), El("subheader", PyStr("situation_type"))>>)
    IN  IF sub.kind = "raise" THEN Fail(r0, sub.exc)
        ELSE Emit(r0, <<El("info", sub.v)>>)

\* if analysis.get("special_recommendations"): ...
SpecialRecommendations(r, analysis) ==
    IF r.exc # "" THEN r
    ELSE IF Truthy(DictGet(analysis, "special_recommendations", PyNone))
         THEN ForEachOf(Emit(r, <<El("expander", PyStr("special_recommendations"))>>),
                        analysis, "special_recommendations", "markdown")
    ELSE r

\* app1.py lines 417-440
render_app1(analysis, export_clicked) ==
    LET r1 == SituationType(RenderStart, analysis)
        r2 == ForEachOf(Emit(r1, <<El("expander", PyStr("primary_actions"))>>),
                        analysis, "primary_actions", "checkbox")
        r3 == ForEachOf(Emit(r2, <<El("expander", PyStr("required_examinations"))>>),
                        analysis, "required_examinations", "markdown")
        r4 == IF r3.exc # "" THEN r3
              ELSE display_interrogation_plan(r3, analysis, export_clicked)
    IN  SpecialRecommendations(r4, analysis)

\* app.py lines 153-178
render_app(analysis) ==
    LET r1 == SituationType(RenderStart, analysis)
        r2 == ForEachOf(Emit(r1, <<El("subheader", PyStr("primary_actions"))>>),
                        analysis, "primary_actions", "checkbox")
        r3 == ForEachOf(Emit(r2, <<El("subheader", PyStr("required_examinations"))>>),
                        analysis, "required_examinations", "markdown")
        r4 == ForEachOf(Emit(r3, <<El("subheader", PyStr("witness_questions"))>>),
                        analysis, "witness_questions", "markdown")
    IN  IF r4.exc # "" THEN r4
        ELSE IF analysis.t # "dict" THEN Fail(r4, "AttributeError")
        ELSE IF Truthy(DictGet(analysis, "special_recommendations", PyNone))
             THEN ForEachOf(Emit(r4, <<El("subheader", PyStr("special_recommendations"))>>),
                            analysis, "special_recommendations", "markdown")
        ELSE r4

----------------------------------------------------------------------------
(* The replies the backend is let to give in a session: plans in the       *)
(* shape the prompt asks for (app1.py lines 65-114) with fields, roles or  *)
(* categories left out, one of them wrapped in prose, and texts that are   *)
(* no plan at all.                                                         *)

TopFields == <<"situation_type", "primary_actions", "required_examinations",
               "interrogation_plan", "special_recommendations">>

Roles == <<"witness_questions", "driver_questions", "victim_questions">>

RoleCategories(role) ==
    CASE role = "witness_questions" -> WitnessCategories
      [] role = "driver_questions"  -> DriverCategories
      [] role = "victim_questions"  -> VictimCategories

AllCategories == {"general", "specific", "technical", "pre_incident", "incident",
                  "post_incident", "health"}

CategoryChoices == {AllCategories, {"general", "pre_incident"},
                    {"technical", "health"}, {}}

Keep(seq, S) == SelectSeq(seq, LAMBDA x : x \in S)

Questions == PyList(<<PyStr("q1"), PyStr("q2")>>)

RoleValue(role, C) ==
    LET cats == Keep(RoleCategories(role), C)
    IN  PyDict(cats, [i \in 1..Len(cats) |-> Questions])

InterrogationValue(R, C) ==
    LET roles == Keep(Roles, R)
    IN  PyDict(roles, [i \in 1..Len(roles) |-> RoleValue(roles[i], C)])

FieldValue(field, R, C) ==
    CASE field = "situation_type"          -> PyStr("A")
      [] field = "primary_actions"         -> PyList(<<PyStr("a1")>>)
      [] field = "required_examinations"   -> PyList(<<PyStr("e1")>>)
      [] field = "interrogation_plan"      -> InterrogationValue(R, C)
      [] field = "special_recommendations" -> PyList(<<PyStr("r1")>>)

PlanValue(F, R, C) ==
    LET fields == Keep(TopFields, F)
    IN  PyDict(fields, [i \in 1..Len(fields) |-> FieldValue(fields[i], R, C)])

Range(seq) == {seq[i] : i \in 1..Len(seq)}

FullPlan == PlanValue(Range(TopFields), Range(Roles), AllCategories)

\* Plans with at most one top-level field left out, or all of them; plans
\* with any roles left out; plans with some categories left out.
SamplePlans ==
    {PlanValue(Range(TopFields) \ F, Range(Roles), AllCategories) :
        F \in {{}, Range(TopFields)} \cup {{f} : f \in Range(TopFields)}}
    \cup {PlanValue(Range(TopFields), R, AllCategories) : R \in SUBSET Range(Roles)}
    \cup {PlanValue(Range(TopFields), Range(Roles), C) : C \in CategoryChoices}

SampleTexts ==
    {json_dumps(plan) : plan \in SamplePlans}
    \cup {<<"w">> \o json_dumps(FullPlan) \o <<"w">>,
          <<>>, <<"w">>, <<"[", "]">>, <<"{", "}", "w", "{", "}">>}

\* A reply always decodes and renders the same way: both are worked out
\* once for each sample reply and looked up in the runs of a session.
DecodedSamples ==
    [toks \in SampleTexts |-> [app1 |-> decode_app1(toks), app |-> decode_app(toks)]]

RenderedSamples ==
    [v \in {DecodedSamples[toks].app1.v : toks \in SampleTexts} |->
        [clicked \in BOOLEAN |-> render_app1(v, clicked)]]

----------------------------------------------------------------------------
(* The backend call and analyze_situation.                                 *)

\* What the backend does with one request: it fails, or it replies text.
BackendError == [kind |-> "error", text |-> <<>>]

BackendText(toks) == [kind |-> "text", text |-> toks]

BackendOutcomes == {BackendError} \cup {BackendText(toks) : toks \in SampleTexts}

\* A second attempt after a failed call.
messages_create_retry(backend) ==
    [calls |-> IF backend.kind = "error" THEN 2 ELSE 1,
     outcome |-> IF backend.kind = "error" THEN Raise("APIError") ELSE Return(PyNone)]

\* app1.py lines 125-131, app.py lines 36-42: client.messages.create is
\* called once; it raises or hands back the reply.
messages_create(backend) ==
    [calls |-> 1,
     outcome |-> IF backend.kind = "error" THEN Raise("APIError") ELSE Return(PyNone)]

\* app1.py lines 37-170.  stopped: st.stop() ended the run (lines 43-45).
analyze_situation_app1(ss, environ, secret, text_value, backend) ==
    LET g == get_api_key(ss, environ, secret, text_value)
        response == messages_create(backend)
    IN  IF not_api_key(g.api_key)
        THEN [stopped |-> TRUE, requests |-> 0, outcome |-> NotRun,
              session_state |-> g.session_state]
        ELSE [stopped |-> FALSE, requests |-> response.calls,
              outcome |-> IF response.outcome.kind = "raise"
                          THEN OuterHandler(response.outcome)
                          ELSE DecodedSamples[backend.text].app1,
              session_state |-> g.session_state]

\* app.py line 14: st.secrets["ANTHROPIC_API_KEY"] raises KeyError without
\* the entry; with it, the call of the name anthropic, which "import
\* anthropic" binds to the module, raises TypeError.
client_app(secret) ==
    IF secret = NONE THEN Raise("KeyError") ELSE Raise("TypeError")

\* app.py lines 10-44
analyze_situation_app(secret, backend) ==
    LET client == client_app(secret)
        response == messages_create(backend)
    IN  IF client.kind = "raise"
        THEN [stopped |-> FALSE, requests |-> 0, outcome |-> client]
        ELSE [stopped |-> FALSE, requests |-> response.calls,
              outcome |-> IF response.outcome.kind = "raise"
                          THEN response.outcome
                          ELSE DecodedSamples[backend.text].app]

----------------------------------------------------------------------------
(* One run of the script.                                                  *)

NoBoxes == [vehicle |-> FALSE, victim |-> FALSE, driver |-> FALSE]

NoSources == [env |-> NONE, secrets |-> NONE, session |-> NONE]

\* What a run leaves behind for the properties to look at.
RunRecord(input, sources, api_key, requests, result, case_details, status, r) ==
    [trigger |-> input.trigger, typed |-> input.typed, sources |-> sources,
     api_key |-> api_key, requests |-> requests, result |-> result,
     case_details |-> case_details, status |-> status,
     exc |-> r.exc, out |-> r.out, download |-> r.download]

\* except Exception as e: st.error(...); st.exception(e)
Reported(r, exc) ==
    [r EXCEPT !.exc = exc,
              !.out = @ \o <<El("error", PyStr(exc)), El("exception", PyStr(exc))>>]

FormPage == {"form", "analyze_button"}

\* The end of the button's branch once analyze_situation has ended in a and,
\* where it returned, the plan was rendered as r (app1.py lines 411-444,
\* app.py lines 149-181).  ss is the session state an exception leaves,
\* stored the one after a returned plan.
Submitted(a, r, ss, stored, input, sources, api_key, base_page, case_details) ==
    IF a.stopped
    THEN [session_state |-> ss, page |-> base_page \cup FormPage,
          run |-> RunRecord(input, sources, api_key, a.requests, a.outcome,
                            case_details, "missing_credential",
                            Emit(RenderStart, <<El("error", PyStr("no_api_key"))>>))]
    ELSE IF a.outcome.kind = "raise"
    THEN [session_state |-> ss, page |-> base_page \cup FormPage,
          run |-> RunRecord(input, sources, api_key, a.requests, a.outcome,
                            case_details, "error",
                            Reported(RenderStart, a.outcome.exc))]
    ELSE [session_state |-> stored, page |-> base_page \cup FormPage \cup r.page,
          run |-> RunRecord(input, sources, api_key, a.requests, a.outcome,
                            case_details,
                            IF r.exc = "" THEN "plan" ELSE "error",
                            IF r.exc = "" THEN r ELSE Reported(r, r.exc))]

\* The assignment of line 413 left out.
analysis_result_not_stored(ss, v) == ss

\* app1.py line 413: st.session_state.analysis_result = <the value returned>
store_analysis_result(ss, v) ==
    [ss EXCEPT !.has_result = TRUE, !.analysis_result = v]

\* app1.py lines 384-444: the button's branch.  The plan is stored in the
\* session state (line 413) before it is rendered.
submit_app1(ss, environ, secret, text_value, input, sources, api_key, base_page, boxes) ==
    LET a == analyze_situation_app1(ss, environ, secret, text_value, input.backend)
    IN  Submitted(a, RenderedSamples[a.outcome.v][input.trigger = "export"],
                  a.session_state,
                  store_analysis_result(a.session_state, a.outcome.v),
                  input, sources, api_key, base_page,
                  case_details_app1(boxes, FormValues))

\* app1.py lines 292-444
main_app1(ss, pg, w, environ, secret, input) ==
    LET ss1 == IF input.trigger = "change_key"
               THEN [ss EXCEPT !.has_key = TRUE, !.ANTHROPIC_API_KEY = NONE]
               ELSE ss
        text_value == IF "key_input" \in pg THEN w.key_input ELSE ""
        g == get_api_key(ss1, environ, secret, text_value)
        base_page == {"change_key_button"}
                     \cup (IF g.prompted THEN {"key_input"} ELSE {})
        sources == [env |-> environ, secrets |-> secret, session |-> session_get(ss1)]
    IN  IF not_api_key(g.api_key)
        THEN [session_state |-> g.session_state, page |-> base_page,
              run |-> RunRecord(input, sources, g.api_key, 0, NotRun, PyNone,
                                "missing_credential",
                                Emit(RenderStart, <<El("warning", PyStr("enter_api_key"))>>))]
        ELSE IF input.trigger # "analyze"
        THEN [session_state |-> g.session_state, page |-> base_page \cup FormPage,
              run |-> RunRecord(input, sources, g.api_key, 0, NotRun, PyNone,
                                "form", RenderStart)]
        ELSE submit_app1(g.session_state, environ, secret, text_value, input, sources,
                         g.api_key, base_page, w.boxes)

\* app.py lines 46-181
main_app(ss, pg, w, environ, secret, input) ==
    LET sources == [env |-> environ, secrets |-> secret, session |-> NONE]
        a == analyze_situation_app(secret, input.backend)
    IN  IF input.trigger # "analyze"
        THEN [session_state |-> ss, page |-> FormPage,
              run |-> RunRecord(input, sources, NONE, 0, NotRun, PyNone,
                                "form", RenderStart)]
        ELSE Submitted(a, render_app(a.outcome.v), ss, ss, input, sources, secret, {},
                       case_details_app(w.boxes, FormValues))

----------------------------------------------------------------------------
VARIABLES
    variant,        \* which script the session runs: "app" or "app1"
    env,            \* os.environ's ANTHROPIC_API_KEY
    secrets,        \* the secret store's ANTHROPIC_API_KEY
    session_state,  \* st.session_state
    page,           \* the widgets the last run put on the page
    widgets,        \* the values the browser holds for the widgets on the page
    run,            \* what the last run of the script did
    reply,          \* DecodeSpec: the reply text handed to the decoders
    decoded,        \* DecodeSpec: per variant, the outcome of decoding reply
    analysis,       \* ExportSpec: the plan handed to display_interrogation_plan
    exported        \* ExportSpec: what a press of the export button built of it

session_vars == <<variant, env, secrets, session_state, page, widgets, run>>

decode_vars == <<reply, decoded>>

export_vars == <<analysis, exported>>

vars == <<variant, env, secrets, session_state, page, widgets, run, reply, decoded,
          analysis, exported>>

Variants == {"app", "app1"}

EnvValues == {NONE, "", "k1"}

SecretValues == {NONE, "k2"}

TypedKeys == {"k3"}

Participants == {"vehicle", "victim", "driver"}

NoInput == [trigger |-> "none", typed |-> "", backend |-> BackendError]

Input(trigger) == [NoInput EXCEPT !.trigger = trigger]

SessionInit ==
    /\ variant \in Variants
    /\ env \in EnvValues
    /\ secrets \in SecretValues
    /\ session_state = [has_key |-> FALSE, ANTHROPIC_API_KEY |-> NONE,
                        has_result |-> FALSE, analysis_result |-> PyNone]
    /\ page = {}
    /\ widgets = [key_input |-> "", boxes |-> NoBoxes]
    /\ run = RunRecord(NoInput, NoSources, NONE, 0, NotRun, PyNone, "none", RenderStart)

DecodeIdle ==
    /\ reply = <<>>
    /\ decoded = [v \in Variants |-> NotRun]

NotExported == [pressed |-> FALSE, exc |-> "", download |-> NoDownload]

ExportIdle ==
    /\ analysis = PyNone
    /\ exported = NotExported

Init == SessionInit /\ DecodeIdle /\ ExportIdle

\* What a finished run leaves: the session state, the page, and the widget
\* values the browser keeps.  Values of widgets the run does not put on the
\* page again are dropped.
EndRun(done, w) ==
    /\ session_state' = done.session_state
    /\ page' = done.page
    /\ run' = done.run
    /\ widgets' = [key_input |-> IF "key_input" \in page /\ "key_input" \in done.page
                                 THEN w.key_input ELSE "",
                   boxes |-> IF "form" \in done.page THEN w.boxes ELSE NoBoxes]
    /\ UNCHANGED <<variant, env, secrets, decode_vars, export_vars>>

\* The rerun of the script that an interaction sets off.  w holds the
\* widget values the browser sends with it.
Rerun(w, input) ==
    EndRun(IF variant = "app1"
           THEN main_app1(session_state, page, w, env, secrets, input)
           ELSE main_app(session_state, page, w, env, secrets, input), w)

\* The browser opens the page: the first run of the session.
OpenPage ==
    /\ run.trigger = "none"
    /\ Rerun(widgets, Input("open"))

\* The operator types a key into the prompt of get_api_key.
EnterApiKey(key) ==
    /\ "key_input" \in page
    /\ Rerun([widgets EXCEPT !.key_input = key],
             [Input("type_key") EXCEPT !.typed = key])

\* The operator presses the change-API-key button of the sidebar.
ClickChangeKey ==
    /\ "change_key_button" \in page
    /\ Rerun(widgets, Input("change_key"))

\* The operator ticks or unticks a participant's checkbox.
ToggleCheckbox(p) ==
    /\ "form" \in page
    /\ Rerun([widgets EXCEPT !.boxes[p] = ~@], Input("toggle"))

\* The operator presses the analyze button; the backend answers somehow.
ClickAnalyze(backend) ==
    /\ "analyze_button" \in page
    /\ Rerun(widgets, [Input("analyze") EXCEPT !.backend = backend])

\* The operator presses the export button under a displayed plan.
ClickExport ==
    /\ "export_button" \in page
    /\ Rerun(widgets, Input("export"))

\* The deployment's secrets are edited between two runs.
EditSecrets(value) ==
    /\ run.trigger # "none"
    /\ value # secrets
    /\ secrets' = value
    /\ UNCHANGED <<variant, env, session_state, page, widgets, run, decode_vars, export_vars>>

Next ==
    \/ OpenPage
    \/ \E key \in TypedKeys : EnterApiKey(key)
    \/ ClickChangeKey
    \/ \E p \in Participants : ToggleCheckbox(p)
    \/ \E backend \in BackendOutcomes : ClickAnalyze(backend)
    \/ ClickExport
    \/ \E value \in SecretValues : EditSecrets(value)

Spec == Init /\ [][Next]_vars

----------------------------------------------------------------------------
(* DecodeSpec: both decoders applied to every reply text up to MaxLen.     *)

\* Tokens of the enumerated reply texts: punctuation, one string literal
\* and one prose word.
Alphabet == {"{", "}", "[", "]", ":", ",", "s", "w"}

Texts == UNION {[1..n -> Alphabet] : n \in 0..MaxLen}

\* No session is open while a function is applied on its own.
SessionIdle ==
    /\ variant = "app1"
    /\ env = NONE
    /\ secrets = NONE
    /\ session_state = [has_key |-> FALSE, ANTHROPIC_API_KEY |-> NONE,
                        has_result |-> FALSE, analysis_result |-> PyNone]
    /\ page = {}
    /\ widgets = [key_input |-> "", boxes |-> NoBoxes]
    /\ run = RunRecord(NoInput, NoSources, NONE, 0, NotRun, PyNone, "none", RenderStart)

DecodeInit ==
    /\ reply \in Texts
    /\ decoded = [v \in Variants |-> NotRun]
    /\ SessionIdle
    /\ ExportIdle

DecodeApp1 ==
    /\ decoded["app1"] = NotRun
    /\ decoded' = [decoded EXCEPT !["app1"] = decode_app1(reply)]
    /\ UNCHANGED <<reply, session_vars, export_vars>>

DecodeApp ==
    /\ decoded["app"] = NotRun
    /\ decoded' = [decoded EXCEPT !["app"] = decode_app(reply)]
    /\ UNCHANGED <<reply, session_vars, export_vars>>

DecodeNext == DecodeApp1 \/ DecodeApp

DecodeSpec == DecodeInit /\ [][DecodeNext]_vars

----------------------------------------------------------------------------
(* ExportSpec: the export branch of display_interrogation_plan (app1.py    *)
(* lines 242-290) applied to plans of any shape.                           *)

\* The categories a role's mapping is let to hold, in the order it holds
\* them: none, those of the prompt for one of the roles, and others.
CategorySeqs ==
    {<<>>, WitnessCategories, DriverCategories, VictimCategories,
     <<"technical", "general">>, <<"health">>}

CategoryDict(cats) == PyDict(cats, [i \in 1..Len(cats) |-> Questions])

\* A role is left out of the plan or holds one of the mappings.
RoleChoices == {[given |-> FALSE, v |-> PyNone]}
               \cup {[given |-> TRUE, v |-> CategoryDict(cats)] : cats \in CategorySeqs}

InterrogationPlan(choice) ==
    LET roles == SelectSeq(Roles, LAMBDA role : choice[role].given)
    IN  PyDict(roles, [i \in 1..Len(roles) |-> choice[roles[i]].v])

ExportAnalyses ==
    {PyDict(<<"interrogation_plan">>, <<InterrogationPlan(choice)>>) :
        choice \in [Range(Roles) -> RoleChoices]}

ExportInit ==
    /\ analysis \in ExportAnalyses
    /\ exported = NotExported
    /\ SessionIdle
    /\ DecodeIdle

\* st.button of line 242 returns True: the document is built.
PressExport ==
    /\ ~exported.pressed
    /\ exported' = [pressed |-> TRUE,
                    exc |-> display_interrogation_plan(RenderStart, analysis, TRUE).exc,
                    download |-> display_interrogation_plan(RenderStart, analysis, TRUE).download]
    /\ UNCHANGED <<analysis, session_vars, decode_vars>>

ExportNext == PressExport

ExportSpec == ExportInit /\ [][ExportNext]_vars

----------------------------------------------------------------------------
(* Properties of a session (Spec).                                         *)

\* C1: a run of the script that resolves no non-empty credential issues no
\* backend request; in app1.py it ends in the missing-credential condition
\* and in app.py, which only looks the secret up on a submission, in the
\* error reported for that submission.
C1_NoCredentialNoRequest ==
    (run.trigger # "none" /\ ~KeyTruthy(run.api_key)) =>
        /\ run.requests = 0
        /\ variant = "app1" => run.status = "missing_credential"
        /\ (variant = "app" /\ run.trigger = "analyze") => run.status = "error"

\* A press of the analyze button in app1.py met by no credential.
C1_Witness ==
    /\ variant = "app1"
    /\ run.trigger = "analyze"
    /\ ~KeyTruthy(run.api_key)
    /\ run.status = "missing_credential"

\* C5: get_api_key returns the first non-empty of the environment variable,
\* the secret store and the cached session value, in that order.
C5_FirstNonEmptyWins ==
    (variant = "app1" /\ run.trigger # "none") =>
        /\ KeyTruthy(run.sources.env) => run.api_key = run.sources.env
        /\ (~KeyTruthy(run.sources.env) /\ KeyTruthy(run.sources.secrets))
              => run.api_key = run.sources.secrets
        /\ (~KeyTruthy(run.sources.env) /\ ~KeyTruthy(run.sources.secrets)
                /\ KeyTruthy(run.sources.session))
              => run.api_key = run.sources.session

\* An empty environment variable does not mask the secret store's key.
C5_Witness ==
    /\ variant = "app1"
    /\ run.sources.env = ""
    /\ run.sources.secrets = "k2"
    /\ run.api_key = "k2"

\* C6: a run issues at most one backend request, and a failure of the
\* request or of the decoding is the error reported by that same run.
C6_SingleAttempt ==
    /\ run.requests <= 1
    /\ run.result.kind = "raise" =>
          (run.status = "error" /\ run.exc = run.result.exc)

\* A failed request and an unparseable reply, each after one request.
C6_Witness ==
    /\ variant = "app1"
    /\ run.requests = 1
    /\ run.result \in {Raise("APIError"), Raise("ValueError")}
    /\ run.status = "error"

\* What the backend reads of a value placed in the prompt.
Serialized(v) == json_loads(json_dumps(v)).v

\* The participants of the serialized case record.
ParticipantsOf(case_details) ==
    DictGet(Serialized(case_details), "participants", PyNone)

\* C7: in the serialized case record of a submission, a participant that
\* is not present has null or no details, and details are there only for a
\* participant that is present.
C7_AbsentHasNoDetails ==
    run.case_details # PyNone =>
        LET participants == ParticipantsOf(run.case_details)
        IN  \A p \in Participants :
                /\ HasKey(DictGet(participants, p, PyNone), "present")
                /\ DictGet(DictGet(participants, p, PyNone), "present", PyNone) = PyBool(FALSE)
                      => DictGet(DictGet(participants, p, PyNone), "details", PyNone) = PyNone
                /\ DictGet(DictGet(participants, p, PyNone), "details", PyNone) # PyNone
                      => DictGet(DictGet(participants, p, PyNone), "present", PyNone) = PyBool(TRUE)

\* A record with the vehicle present and described and the victim absent.
C7_Witness ==
    /\ run.case_details # PyNone
    /\ LET participants == ParticipantsOf(run.case_details)
       IN  /\ Truthy(DictGet(DictGet(participants, "vehicle", PyNone), "details", PyNone))
           /\ DictGet(DictGet(participants, "victim", PyNone), "present", PyNone) = PyBool(FALSE)
           /\ HasKey(DictGet(participants, "victim", PyNone), "details")

\* C8: a decoded plan with any of its fields absent is rendered without an
\* error being raised or reported.
C8_AbsentFieldsSkipped ==
    (run.result.kind = "return" /\ run.result.v.t = "dict") =>
        (run.status = "plan" /\ run.exc = "")

\* C9: without a key in the environment and the secret store, the key the
\* operator types into the prompt is the credential of the run that follows
\* and the form is shown.
C9_TypedKeyIsUsed ==
    (variant = "app1" /\ run.trigger = "type_key"
        /\ ~KeyTruthy(run.sources.env) /\ ~KeyTruthy(run.sources.secrets)) =>
        (run.api_key = run.typed /\ "form" \in page)

\* C10: the run set off by a press of the export button builds the
\* document and offers the download button.
C10_ExportOffersDownload ==
    run.trigger = "export" =>
        ("download_button" \in page /\ run.download # NoDownload)

\* C13: st.session_state.analysis_result changes only in a run of app1.py
\* whose generation returned, and after such a run it is the value the
\* decoder returned; a run whose generation failed leaves it as it was.
C13_StoredOnlyOnSuccess ==
    [][/\ (session_state'.analysis_result # session_state.analysis_result
             \/ session_state'.has_result # session_state.has_result)
           => (variant = "app1" /\ run'.trigger = "analyze"
                  /\ run'.result.kind = "return")
       /\ (variant = "app1" /\ run'.trigger = "analyze" /\ run'.result.kind = "return")
           => (session_state'.has_result
                  /\ session_state'.analysis_result = run'.result.v)]_vars

\* A generation that failed after an earlier one had stored its plan.
C13_Witness ==
    /\ variant = "app1"
    /\ run.trigger = "analyze"
    /\ run.result.kind = "raise"
    /\ session_state.has_result
    /\ session_state.analysis_result.t = "dict"

----------------------------------------------------------------------------
(* Properties of the decoding (DecodeSpec).                                *)

\* C2: a reply that is valid JSON as a whole is returned parsed as a whole
\* by both variants.
C2_ValidJsonParsedWhole ==
    json_loads(reply).ok =>
        \A v \in Variants :
            decoded[v] # NotRun => decoded[v] = Return(json_loads(reply).v)

\* A valid reply in which the extraction would have found something else.
C2_Witness ==
    /\ json_loads(reply).ok
    /\ re_search(reply).matched
    /\ re_search(reply).group # reply
    /\ decoded["app1"].kind = "return"
    /\ decoded["app"].kind = "return"

NoBrace(toks) == \A i \in 1..Len(toks) : toks[i] \notin {"{", "}"}

RECURSIVE Depth(_, _)
\* The nesting depth after toks, or -1 once a "}" closes nothing.
Depth(toks, n) ==
    IF n = 0 THEN 0
    ELSE LET d == Depth(toks, n - 1)
         IN  IF d < 0 THEN d
             ELSE IF toks[n] = "{" THEN d + 1
             ELSE IF toks[n] = "}" THEN (IF d = 0 THEN 0 - 1 ELSE d - 1)
             ELSE d

NoUnmatchedBrace(toks) == Depth(toks, Len(toks)) = 0

\* The places of an inner document: reply = prefix + "{" body "}" + suffix
\* with "{" body "}" valid JSON.
InnerDocuments ==
    {ij \in (1..Len(reply)) \X (1..Len(reply)) :
        /\ ij[1] < ij[2]
        /\ reply[ij[1]] = "{"
        /\ reply[ij[2]] = "}"
        /\ json_loads(SubSeq(reply, ij[1], ij[2])).ok}

Prefix(ij) == SubSeq(reply, 1, ij[1] - 1)

Inner(ij) == SubSeq(reply, ij[1], ij[2])

Suffix(ij) == SubSeq(reply, ij[2] + 1, Len(reply))

\* C3 as stated: an inner document between a prefix and a suffix without
\* unmatched braces is recovered when the reply as a whole is not valid JSON.
C3_InnerDocumentRecovered ==
    decoded["app1"] # NotRun =>
        \A ij \in InnerDocuments :
            (NoUnmatchedBrace(Prefix(ij)) /\ NoUnmatchedBrace(Suffix(ij))
                /\ ~json_loads(reply).ok)
                => decoded["app1"] = Return(json_loads(Inner(ij)).v)

\* C3, amended: an inner document between a prefix and a suffix without any
\* brace is recovered when the reply as a whole is not valid JSON.
C3_InnerDocumentRecoveredNoBrace ==
    decoded["app1"] # NotRun =>
        \A ij \in InnerDocuments :
            (NoBrace(Prefix(ij)) /\ NoBrace(Suffix(ij)) /\ ~json_loads(reply).ok)
                => decoded["app1"] = Return(json_loads(Inner(ij)).v)

\* A document recovered from between a prose prefix and a prose suffix.
C3_Witness ==
    /\ decoded["app1"].kind = "return"
    /\ ~json_loads(reply).ok
    /\ \E ij \in InnerDocuments :
          /\ NoBrace(Prefix(ij)) /\ Prefix(ij) # <<>>
          /\ NoBrace(Suffix(ij)) /\ Suffix(ij) # <<>>

\* The three outcomes of the decoding of app1.py.
DecoderOutcomes ==
    {Raise("ValueError")}
    \cup (IF json_loads(reply).ok THEN {Return(json_loads(reply).v)} ELSE {})
    \cup (IF re_search(reply).matched /\ json_loads(re_search(reply).group).ok
          THEN {Return(json_loads(re_search(reply).group).v)} ELSE {})

\* C4 as stated: a reply without a brace-delimited substring fails with
\* ValueError, and the outcomes are the whole parse, the extraction's parse
\* or that failure.
C4_NoBraceFails ==
    decoded["app1"] # NotRun =>
        /\ ~re_search(reply).matched => decoded["app1"] = Raise("ValueError")
        /\ decoded["app1"] \in DecoderOutcomes

\* C4, amended: a reply without a brace-delimited substring that is not
\* valid JSON as a whole fails with ValueError, and the outcomes are the
\* whole parse, the extraction's parse or that failure.
C4_NoBraceInvalidFails ==
    decoded["app1"] # NotRun =>
        /\ (~re_search(reply).matched /\ ~json_loads(reply).ok)
              => decoded["app1"] = Raise("ValueError")
        /\ decoded["app1"] \in DecoderOutcomes

\* A reply with braces of which none opens before another closes.
C4_Witness ==
    /\ decoded["app1"] = Raise("ValueError")
    /\ ~re_search(reply).matched
    /\ \E i \in 1..Len(reply) : reply[i] = "{"

\* C12: both variants decode a reply to the same outcome: the same value,
\* or a failure in both.
C12_VariantsDecodeAlike ==
    (decoded["app"] # NotRun /\ decoded["app1"] # NotRun) =>
        /\ decoded["app"].kind = decoded["app1"].kind
        /\ decoded["app"].kind = "return" => decoded["app"].v = decoded["app1"].v

----------------------------------------------------------------------------
(* Properties of the export (ExportSpec).                                  *)

RECURSIVE SectionAt(_, _)
\* The role whose header is the last one at or above line n of the
\* document; "" above the first header.
SectionAt(lines, n) ==
    IF n = 0 THEN ""
    ELSE IF lines[n].kind = "section" THEN lines[n].text.s
    ELSE SectionAt(lines, n - 1)

\* The questions of the document beneath a role's header, in their order.
ExportedQuestions(lines, role) ==
    LET at == SelectSeq([i \in 1..Len(lines) |-> i],
                        LAMBDA i : lines[i].kind = "question" /\ SectionAt(lines, i) = role)
    IN  [k \in 1..Len(at) |-> lines[at[k]].text]

RECURSIVE Concat(_)
Concat(seqs) == IF seqs = <<>> THEN <<>> ELSE seqs[1] \o Concat(Tail(seqs))

\* The questions the plan holds under a role, category after category.
PlanQuestions(plan, role) ==
    LET questions == DictGet(plan, role, PyDict(<<>>, <<>>))
    IN  Concat([i \in 1..Len(questions.kids) |-> Items(questions.kids[i])])

Count(seq, x) == Cardinality({i \in 1..Len(seq) : seq[i] = x})

\* The same items, each as many times, whatever the order.
SameItems(a, b) == \A x \in Range(a) \cup Range(b) : Count(a, x) = Count(b, x)

\* The roles of the headers of the document, in their order.
Sections(lines) ==
    LET heads == SelectSeq(lines, LAMBDA line : line.kind = "section")
    IN  [k \in 1..Len(heads) |-> heads[k].text.s]

\* C11: the document built on a press of the export button holds, beneath
\* each role's header, the questions of every category the plan holds under
\* that role, each as often as the plan holds it and none besides, with the
\* headers in the order witness, driver, victim.
C11_ExportIsFlattening ==
    exported.pressed =>
        /\ exported.exc = ""
        /\ \A role \in Range(Roles) :
              SameItems(ExportedQuestions(exported.download, role),
                        PlanQuestions(DictGet(analysis, "interrogation_plan", PyNone), role))
        /\ Sections(exported.download)
              = Keep(Roles, Range(Sections(exported.download)))
        /\ \A i \in 1..Len(exported.download) :
              exported.download[i].kind = "question"
                  => SectionAt(exported.download, i) # ""

=============================================================================
